---- MODULE Spec2Model ----
(***************************************************************************)
(* Model of support/fetch-and-filter-weekly.js: the batch job that splits  *)
(* the weekly site-scanning snapshot into the www / other-NCI /            *)
(* other-federal cohorts, keeps the home-page records of each, checks the  *)
(* www home-page cardinality, prints the comparison report and the two     *)
(* groupings (DAP parameters, third-party service domains).                *)
(*                                                                         *)
(* JavaScript values are tagged records; strings are sequences of          *)
(* one-character strings, so that trim, length, substring and suffix tests *)
(* are computed.  JavaScript numbers are fixed point: Num(n) stands for    *)
(* the number n / Scale, which represents the thresholds 0.1 and 0.25 of   *)
(* the layout-shift buckets exactly.                                       *)
(***************************************************************************)
EXTENDS Integers, Sequences, FiniteSets, TLC

VARIABLES
    data,                        \* the snapshot returned by fetchFileFromFile
    pc,                          \* position of main
    exitCode,                    \* process exit status, "none" while running
    wwwRecords, otherNCIRecords, otherFedRecords,
    wwwHomeRecords, otherNCIHomeRecords, otherFedHomeRecords,
    homeReport,                  \* result of generateReport (<<>> before it)
    tableRows,                   \* comparison-table rows written to stdout
    otherNCIdapParams,           \* DAP grouping accumulator
    dapRows,                     \* agency/subagency rows written to stdout
    otherNCIthirdPartyServices,  \* domain grouping accumulator
    domainRows,                  \* service-domain rows written to stdout
    linkArgs,                    \* arguments of a direct hasRequiredLink call
    linkResult                   \* its result ("none" before the call)

vars == <<data, pc, exitCode, wwwRecords, otherNCIRecords, otherFedRecords,
          wwwHomeRecords, otherNCIHomeRecords, otherFedHomeRecords,
          homeReport, tableRows, otherNCIdapParams, dapRows,
          otherNCIthirdPartyServices, domainRows, linkArgs, linkResult>>

----------------------------------------------------------------------------
(* Bounds of the model *)

MaxRecords == 3

(* Fixed-point denominator of modelled numbers *)
Scale == 100

----------------------------------------------------------------------------
(* JavaScript values *)

Null      == [t |-> "null"]
Undefined == [t |-> "undefined"]
NaN       == [t |-> "nan"]
Num(n)    == [t |-> "num", n |-> n]
Bool(b)   == [t |-> "bool", b |-> b]
Str(s)    == [t |-> "str", s |-> s]
Arr(a)    == [t |-> "arr", a |-> a]
Obj(o)    == [t |-> "obj", o |-> o]

\* record[key]: a missing key reads as undefined
Get(record, key) == IF key \in DOMAIN record THEN record[key] ELSE Undefined

\* the record without one of its keys
Without(record, key) == [k \in DOMAIN record \ {key} |-> record[k]]

\* the record with one key set
With(record, key, value) ==
    [k \in DOMAIN record \cup {key} |-> IF k = key THEN value ELSE record[k]]

WhiteSpace == {" ", "\t", "\n"}
Digits == <<"0", "1", "2", "3", "4", "5", "6", "7", "8", "9">>

RECURSIVE TrimStart(_)
TrimStart(s) ==
    IF s # <<>> /\ Head(s) \in WhiteSpace THEN TrimStart(Tail(s)) ELSE s

RECURSIVE TrimEnd(_)
TrimEnd(s) ==
    IF s # <<>> /\ s[Len(s)] \in WhiteSpace
    THEN TrimEnd(SubSeq(s, 1, Len(s) - 1)) ELSE s

\* String.prototype.trim
Trim(s) == TrimEnd(TrimStart(s))

DigitValue(c) == (CHOOSE i \in 1..10 : Digits[i] = c) - 1

IsDigits(s) == s # <<>> /\ \A i \in 1..Len(s) : \E d \in 1..10 : Digits[d] = s[i]

RECURSIVE DigitsValue(_)
DigitsValue(s) ==
    IF s = <<>> THEN 0
    ELSE 10 * DigitsValue(SubSeq(s, 1, Len(s) - 1)) + DigitValue(s[Len(s)])

\* Number(string): blank is 0, a run of digits its value; the strings of the
\* model carry no sign, fraction or exponent, every other string is NaN
StringToNumber(s) ==
    IF Trim(s) = <<>> THEN Num(0)
    ELSE IF IsDigits(Trim(s)) THEN Num(Scale * DigitsValue(Trim(s)))
    ELSE NaN

\* Number(value)
ToNumber(v) ==
    CASE v.t = "num"       -> v
      [] v.t = "nan"       -> NaN
      [] v.t = "bool"      -> Num(IF v.b THEN Scale ELSE 0)
      [] v.t = "null"      -> Num(0)
      [] v.t = "undefined" -> NaN
      [] v.t = "str"       -> StringToNumber(v.s)
      [] v.t = "arr"       -> IF v.a = <<>> THEN Num(0)
                              ELSE IF Len(v.a) = 1 /\ v.a[1].t = "str"
                                   THEN StringToNumber(v.a[1].s)
                              ELSE NaN
      [] v.t = "obj"       -> NaN

\* truthiness (the ! and && operators, the ?: condition)
Truthy(v) ==
    CASE v.t = "num"  -> v.n # 0
      [] v.t = "bool" -> v.b
      [] v.t = "str"  -> v.s # <<>>
      [] v.t \in {"arr", "obj"} -> TRUE
      [] OTHER -> FALSE

\* a < b and a >= b against a number literal: both sides through ToNumber,
\* any comparison with NaN is false
NumLt(v, n) == ToNumber(v).t = "num" /\ ToNumber(v).n < n
NumGe(v, n) == ToNumber(v).t = "num" /\ ToNumber(v).n >= n
NumGt(v, n) == ToNumber(v).t = "num" /\ ToNumber(v).n > n

\* value == 0 (loose equality): null and undefined equal only each other
LooseEqZero(v) ==
    /\ v.t \notin {"null", "undefined"}
    /\ ToNumber(v).t = "num"
    /\ ToNumber(v).n = 0

\* a + b of two numbers
NumAdd(a, b) == IF a.t = "nan" \/ b.t = "nan" THEN NaN ELSE Num(a.n + b.n)

\* mutant of NumDiv: an empty cohort averages to 0
NumDiv_zeroWhenEmpty(sum, n) ==
    IF sum.t = "nan" THEN NaN
    ELSE IF n = 0 THEN [t |-> "quot", num |-> 0, den |-> 1]
    ELSE [t |-> "quot", num |-> sum.n, den |-> n]

\* sum / length of a number by a count, kept as the exact quotient num/den
\* (in units of 1/Scale); 0/0 and NaN/n are NaN
NumDiv(sum, n) ==
    IF sum.t = "nan" \/ (n = 0 /\ sum.n = 0) THEN NaN
    ELSE [t |-> "quot", num |-> sum.n, den |-> n]

\* Array.prototype.filter
RECURSIVE Filter(_, _)
Filter(seq, keep) ==
    IF seq = <<>> THEN <<>>
    ELSE IF keep[Head(seq)] THEN <<Head(seq)>> \o Filter(Tail(seq), keep)
    ELSE Filter(Tail(seq), keep)

Range(seq) == {seq[i] : i \in 1..Len(seq)}

\* String.prototype.includes: needle occurs as a substring of hay
StringIncludes(hay, needle) ==
    \E i \in 0..(Len(hay) - Len(needle)) :
        SubSeq(hay, i + 1, i + Len(needle)) = needle

\* Array.prototype.includes: some element is the same value
ArrayIncludes(arr, value) == \E i \in 1..Len(arr) : arr[i] = value

EndsWith(s, suffix) ==
    /\ Len(s) >= Len(suffix)
    /\ SubSeq(s, Len(s) - Len(suffix) + 1, Len(s)) = suffix

----------------------------------------------------------------------------
(* String literals of the program, as character sequences.  The letter
   n-tilde of 'espanol (with tilde)' is the single character written "n~". *)

s_www_cancer_gov ==   \* 'www.cancer.gov'
    <<"w", "w", "w", ".", "c", "a", "n", "c", "e", "r", ".", "g", "o",
      "v">>
s_dot_cancer_gov ==   \* '.cancer.gov'
    <<".", "c", "a", "n", "c", "e", "r", ".", "g", "o", "v">>
s_dot_ncifcrf_gov ==   \* '.ncifcrf.gov'
    <<".", "n", "c", "i", "f", "c", "r", "f", ".", "g", "o", "v">>
s_dot_nci_nih_gov ==   \* '.nci.nih.gov'
    <<".", "n", "c", "i", ".", "n", "i", "h", ".", "g", "o", "v">>
s_dot_smokefree_gov ==   \* '.smokefree.gov'
    <<".", "s", "m", "o", "k", "e", "f", "r", "e", "e", ".", "g", "o",
      "v">>
s_NONE ==   \* '_NONE_'
    <<"_", "N", "O", "N", "E", "_">>
s_bar ==   \* '|'
    <<"|">>
s_about ==   \* 'about'
    <<"a", "b", "o", "u", "t">>
s_about_us ==   \* 'about us'
    <<"a", "b", "o", "u", "t", " ", "u", "s">>
s_fear ==   \* 'fear'
    <<"f", "e", "a", "r">>
s_no_fear_act ==   \* 'no fear act'
    <<"n", "o", " ", "f", "e", "a", "r", " ", "a", "c", "t">>
s_foia ==   \* 'foia'
    <<"f", "o", "i", "a">>
s_freedom_of_information_act ==   \* 'freedom of information act'
    <<"f", "r", "e", "e", "d", "o", "m", " ", "o", "f", " ", "i", "n",
      "f", "o", "r", "m", "a", "t", "i", "o", "n", " ", "a", "c", "t">>
s_privacy ==   \* 'privacy'
    <<"p", "r", "i", "v", "a", "c", "y">>
s_privacy_policy ==   \* 'privacy policy'
    <<"p", "r", "i", "v", "a", "c", "y", " ", "p", "o", "l", "i", "c",
      "y">>
s_usa_gov ==   \* 'usa.gov'
    <<"u", "s", "a", ".", "g", "o", "v">>
s_spanish ==   \* 'spanish'
    <<"s", "p", "a", "n", "i", "s", "h">>
s_espanol ==   \* 'espanol'
    <<"e", "s", "p", "a", "n", "o", "l">>
s_espanol_tilde ==   \* 'espan~ol'
    <<"e", "s", "p", "a", "n~", "o", "l">>
s_slash_es ==   \* '/es'
    <<"/", "e", "s">>
s_espanol_entity ==   \* 'espa&ntilde;ol'
    <<"e", "s", "p", "a", "&", "n", "t", "i", "l", "d", "e", ";", "o",
      "l">>
s_vulnerability_disclosure ==   \* 'vulnerability disclosure'
    <<"v", "u", "l", "n", "e", "r", "a", "b", "i", "l", "i", "t", "y",
      " ", "d", "i", "s", "c", "l", "o", "s", "u", "r", "e">>
s_budget_and_performance ==   \* 'budget and performance'
    <<"b", "u", "d", "g", "e", "t", " ", "a", "n", "d", " ", "p", "e",
      "r", "f", "o", "r", "m", "a", "n", "c", "e">>
s_inspector ==   \* 'inspector'
    <<"i", "n", "s", "p", "e", "c", "t", "o", "r">>
s_inspector_general ==   \* 'inspector general'
    <<"i", "n", "s", "p", "e", "c", "t", "o", "r", " ", "g", "e", "n",
      "e", "r", "a", "l">>
s_true ==   \* 'true'
    <<"t", "r", "u", "e">>
s_false ==   \* 'false'
    <<"f", "a", "l", "s", "e">>

(* Strings of the modelled input records *)

s_livehelp_cancer_gov ==   \* 'livehelp.cancer.gov'
    <<"l", "i", "v", "e", "h", "e", "l", "p", ".", "c", "a", "n", "c",
      "e", "r", ".", "g", "o", "v">>
s_ccr_nci_nih_gov ==   \* 'ccr.nci.nih.gov'
    <<"c", "c", "r", ".", "n", "c", "i", ".", "n", "i", "h", ".", "g",
      "o", "v">>
s_www_nih_gov ==   \* 'www.nih.gov'
    <<"w", "w", "w", ".", "n", "i", "h", ".", "g", "o", "v">>
s_cancer_gov ==   \* 'cancer.gov'
    <<"c", "a", "n", "c", "e", "r", ".", "g", "o", "v">>
s_NCI ==   \* 'NCI'
    <<"N", "C", "I">>
s_blank ==   \* '  '
    <<" ", " ">>
s_HHS ==   \* 'HHS'
    <<"H", "H", "S">>
s_NIH ==   \* 'NIH'
    <<"N", "I", "H">>
s_ga ==   \* 'ga.com'
    <<"g", "a", ".", "c", "o", "m">>
s_gtm ==   \* 'gtm.com'
    <<"g", "t", "m", ".", "c", "o", "m">>
s_http_x ==   \* 'http://x'
    <<"h", "t", "t", "p", ":", "/", "/", "x">>

----------------------------------------------------------------------------
(* Plain objects used as maps ({...ac, [key]: value}): a sequence of
   key/value pairs in insertion order, keys distinct *)

ObjHas(o, key) == \E i \in 1..Len(o) : o[i].key = key

ObjGet(o, key) == o[CHOOSE i \in 1..Len(o) : o[i].key = key].value

\* {...o, [key]: value}: an existing key keeps its place
ObjSet(o, key, value) ==
    IF ObjHas(o, key)
    THEN [i \in 1..Len(o) |->
             IF o[i].key = key THEN [key |-> key, value |-> value] ELSE o[i]]
    ELSE Append(o, [key |-> key, value |-> value])

\* {...a, ...b}
RECURSIVE ObjSpread(_, _)
ObjSpread(a, b) ==
    IF b = <<>> THEN a
    ELSE ObjSpread(ObjSet(a, Head(b).key, Head(b).value), Tail(b))

\* value[key] of any value: only the objects of the model carry named keys
PropertyOf(v, key) == IF v.t = "obj" THEN Get(v.o, key) ELSE Undefined

RECURSIVE NatToString(_)
NatToString(n) ==
    IF n < 10 THEN <<Digits[n + 1]>>
    ELSE Append(NatToString(n \div 10), Digits[(n % 10) + 1])

\* `${value}` of a string, a boolean or a non-negative whole number
TemplateString(v) ==
    CASE v.t = "str"  -> v.s
      [] v.t = "bool" -> IF v.b THEN s_true ELSE s_false
      [] v.t = "num" /\ v.n >= 0 /\ v.n % Scale = 0 -> NatToString(v.n \div Scale)

----------------------------------------------------------------------------
(* splitRecordsByFilter and the two predicates main passes to it *)

\* filterFn is the predicate's value on each record of data
splitRecordsByFilter(records, filterFn) ==
    LET ac[i \in 0..Len(records)] ==
            IF i = 0 THEN [filterMatches |-> <<>>, other |-> <<>>]
            ELSE IF filterFn[records[i]]
                 THEN [ac[i - 1] EXCEPT !.filterMatches = Append(@, records[i])]
                 ELSE [ac[i - 1] EXCEPT !.other = Append(@, records[i])]
    IN  ac[Len(records)]

\* record.final_url_website === 'www.cancer.gov'
isWWW(record) == Get(record, "final_url_website") = Str(s_www_cancer_gov)

\* record.final_url_website.match(...) is a TypeError unless the field is a
\* string
matchThrows(record) == Get(record, "final_url_website").t # "str"

NCISuffixes ==
    {s_dot_cancer_gov, s_dot_ncifcrf_gov, s_dot_nci_nih_gov, s_dot_smokefree_gov}

\* /.*\.(cancer|ncifcrf|nci\.nih|smokefree)\.gov$/ : the unanchored .* may
\* match nothing, so the string must end in one of the four suffixes
isNCI(record) ==
    \E suffix \in NCISuffixes :
        EndsWith(Get(record, "final_url_website").s, suffix)

----------------------------------------------------------------------------
(* extractUniqueHomePageEntries *)

\* mutant of isHomeRecord: only null or absent counts as no redirect
isHomeRecord_nullOnly(record) ==
    Get(record, "target_url_redirects").t \in {"null", "undefined"}

isHomeRecord(record) == ~Truthy(Get(record, "target_url_redirects"))

extractUniqueHomePageEntries(records) ==
    Filter(records, [r \in Range(records) |-> isHomeRecord(r)])

----------------------------------------------------------------------------
(* getFieldMean, getMeanFn *)

\* transformFn is the transform's value on each record (structuredClone
\* copies the record, the transform returns a new one)
getFieldMean(records, fieldName, transformFn) ==
    LET sum[i \in 0..Len(records)] ==
            IF i = 0 THEN Num(0)
            ELSE NumAdd(sum[i - 1],
                        ToNumber(Get(transformFn[records[i]], fieldName)))
    IN  NumDiv(sum[Len(records)], Len(records))

\* getMeanFn(fieldName, transformFn, filterFn)(wwwHome, otherNCI, otherFed)
getMeanFn(fieldName, transformFn, filterFn, wwwHome, otherNCIHome, otherFedHome) ==
    [www   |-> getFieldMean(Filter(wwwHome, filterFn), fieldName, transformFn),
     nci   |-> getFieldMean(Filter(otherNCIHome, filterFn), fieldName, transformFn),
     other |-> getFieldMean(Filter(otherFedHome, filterFn), fieldName, transformFn)]

----------------------------------------------------------------------------
(* hasRequiredLink *)

\* value.length > 0 of a string or an array; undefined > 0 is false
HasLength(v) ==
    CASE v.t = "str" -> Len(v.s) > 0
      [] v.t = "arr" -> Len(v.a) > 0
      [] OTHER -> FALSE

\* mutant of Includes: an array entry that contains the search string matches
Includes_substringOfEntry(v, search) ==
    CASE v.t = "str" -> StringIncludes(v.s, search)
      [] v.t = "arr" -> \E i \in 1..Len(v.a) : StringIncludes(v.a[i].s, search)

\* value.includes(search): substring of a string, element of an array
Includes(v, search) ==
    CASE v.t = "str" -> StringIncludes(v.s, search)
      [] v.t = "arr" -> ArrayIncludes(v.a, Str(search))

\* searches.reduce((ac, s) => ac || value.includes(s), false)
RECURSIVE anyIncluded(_, _)
anyIncluded(v, searches) ==
    IF searches = <<>> THEN FALSE
    ELSE anyIncluded(v, SubSeq(searches, 1, Len(searches) - 1))
         \/ Includes(v, searches[Len(searches)])

hasRequiredLink(record, urls, text) ==
    LET linksUrl  == Get(record, "required_links_url")
        linksText == Get(record, "required_links_text")
        hasUrl  == /\ Len(urls) > 0
                   /\ linksUrl.t \notin {"null", "undefined"}
                   /\ HasLength(linksUrl)
                   /\ anyIncluded(linksUrl, urls)
        hasText == /\ Len(text) > 0
                   /\ linksText.t \notin {"null", "undefined"}
                   /\ HasLength(linksText)
                   /\ anyIncluded(linksText, text)
    IN  hasUrl \/ hasText

----------------------------------------------------------------------------
(* generateReport: the literal list of metrics, in source order.  Each
   entry names the label, the field averaged, and the shape of its transform
   and filter:
     field    getMeanFn(f)                         (identity transform)
     lt       tmp_field: Number(rec[f]) < hi
     range    tmp_field: rec[f] >= lo && rec[f] < hi
     ge       tmp_field: rec[f] >= lo
     eq0      tmp_field: rec[f] == 0
     hastext  tmp_field: rec[f] !== null && rec[f].trim() !== ''
     len      tmp_field: (rec[f] ?? '').length, filter as hastext
     notnull  tmp_field: rec[f] !== null
     link     tmp_field: hasRequiredLink(rec, urls, text)
     pos      tmp_field: Number(rec[f] ?? 0) > 0
     fieldpos getMeanFn(f, identity, filter as pos)
   Thresholds are in units of 1/Scale. *)

M(label, kind, f, lo, hi) ==
    [label |-> label, kind |-> kind, f |-> f, lo |-> lo, hi |-> hi,
     urls |-> <<>>, text |-> <<>>]

L(label, urls, text) ==
    [label |-> label, kind |-> "link", f |-> "tmp_field", lo |-> 0, hi |-> 0,
     urls |-> urls, text |-> text]

Metrics ==
    << M("Performance - Cumulative Layout Shift (Average)", "field", "cumulative_layout_shift", 0, 0),
       M("Performance - Cumulative Layout Shift (% Good)", "lt", "cumulative_layout_shift", 0, Scale \div 10),
       M("Performance - Cumulative Layout Shift (% Needs improvement)", "range", "cumulative_layout_shift", Scale \div 10, Scale \div 4),
       M("Performance - Cumulative Layout Shift (% Poor)", "ge", "cumulative_layout_shift", Scale \div 4, 0),
       M("Performance - Largest Contentful Paint (Average)", "field", "largest_contentful_paint", 0, 0),
       M("Performance - Largest Contentful Paint (% Good)", "lt", "largest_contentful_paint", 0, 2500 * Scale),
       M("Performance - Largest Contentful Paint (% Needs improvement)", "range", "largest_contentful_paint", 2500 * Scale, 4000 * Scale),
       M("Performance - Largest Contentful Paint (% Poor)", "ge", "largest_contentful_paint", 4000 * Scale, 0),
       M("Third-party Service Domains (Average Count)", "field", "third_party_service_count", 0, 0),
       M("Third-party Service Domains (% use 0 services)", "eq0", "third_party_service_count", 0, 0),
       M("Third-party Service Domains (% use 1-5 services)", "range", "third_party_service_count", 1 * Scale, 6 * Scale),
       M("Third-party Service Domains (% use 6-10 services)", "range", "third_party_service_count", 6 * Scale, 11 * Scale),
       M("Third-party Service Domains (% use 11-20 services)", "range", "third_party_service_count", 11 * Scale, 21 * Scale),
       M("Third-party Service Domains (% more than 20 services)", "ge", "third_party_service_count", 21 * Scale, 0),
       M("Sitemap.xml Detected (% having)", "field", "sitemap_xml_detected", 0, 0),
       M("SEO - title (% having)", "hastext", "title", 0, 0),
       M("SEO - title (Avg Length, where exists)", "len", "title", 0, 0),
       M("SEO - description (% having)", "hastext", "description", 0, 0),
       M("SEO - description (Avg Length, where exists)", "len", "description", 0, 0),
       M("SEO - og:title (% having)", "hastext", "og_title", 0, 0),
       M("SEO - og:description (% having)", "hastext", "og_description", 0, 0),
       M("SEO - article:published_time (% having)", "notnull", "og_article_published", 0, 0),
       M("SEO - article:modified_time (% having)", "notnull", "og_article_modified", 0, 0),
       M("SEO - Canonical Link (% having)", "hastext", "canonical_link", 0, 0),
       M("Robots.txt Detected (% having)", "field", "robots_txt_detected", 0, 0),
       M("Mobile - Viewport Meta Tag Detected (% having)", "field", "viewport_meta_tag", 0, 0),
       L("Required Links - About (% having)", <<s_about>>, <<s_about_us>>),
       L("Required Links - No Fear Act (% having)", <<s_fear>>, <<s_no_fear_act>>),
       L("Required Links - FOIA (% having)", <<s_foia>>, <<s_foia, s_freedom_of_information_act>>),
       L("Required Links - Privacy Policy (% having)", <<s_privacy>>, <<s_privacy_policy>>),
       L("Required Links - USA.gov (% having)", <<s_usa_gov>>, <<s_usa_gov>>),
       L("Required Links - Spanish (% having)",
         <<s_spanish, s_espanol, s_espanol_tilde, s_slash_es>>,
         <<s_espanol, s_espanol_tilde, s_espanol_entity, s_spanish>>),
       L("Required Links - Vulnerability Disclosure (% having)", <<>>, <<s_vulnerability_disclosure>>),
       L("Required Links - Budget and Performance (% having)", <<>>, <<s_budget_and_performance>>),
       L("Required Links - Inspector General (% having)", <<s_inspector>>, <<s_inspector_general>>),
       M("Infrastructure - Site Search Detected (% having)", "field", "site_search", 0, 0),
       M("Infrastructure - DAP Detected (% having)", "field", "dap", 0, 0),
       M("Infrastructure - Search.gov Detected", "field", "search_dot_gov", 0, 0),
       M("DNS - IPv6 (% having)", "field", "ipv6", 0, 0),
       M("USWDS - Count (% having non 0)", "pos", "uswds_count", 0, 0),
       M("USWDS - Count (avg)", "fieldpos", "uswds_count", 0, 0) >>

Labels == [i \in 1..Len(Metrics) |-> Metrics[i].label]

\* mutant of metricFieldName: the mean is taken of the metric's source field
metricFieldName_rawField(m) == IF m.kind = "link" THEN "tmp_field" ELSE m.f

\* the field getFieldMean reads for the metric
metricFieldName(m) ==
    IF m.kind \in {"field", "fieldpos"} THEN m.f ELSE "tmp_field"

\* value.trim() is a TypeError on anything but a string; the && before it
\* guards only null
trimThrows(v) == v.t \notin {"null", "str"}

\* value !== null && value.trim() !== ''
hasText(v) == v.t # "null" /\ Trim(v.s) # <<>>

\* value ?? other
Nullish(v, other) == IF v.t \in {"null", "undefined"} THEN other ELSE v

\* value.length
LengthOf(v) ==
    CASE v.t = "str" -> Num(Scale * Len(v.s))
      [] v.t = "arr" -> Num(Scale * Len(v.a))
      [] OTHER -> Undefined

\* the boolean an indicator transform stores in tmp_field
indicator(m, rec) ==
    CASE m.kind = "lt"      -> NumLt(Get(rec, m.f), m.hi)
      [] m.kind = "range"   -> NumGe(Get(rec, m.f), m.lo) /\ NumLt(Get(rec, m.f), m.hi)
      [] m.kind = "ge"      -> NumGe(Get(rec, m.f), m.lo)
      [] m.kind = "eq0"     -> LooseEqZero(Get(rec, m.f))
      [] m.kind = "hastext" -> hasText(Get(rec, m.f))
      [] m.kind = "notnull" -> Get(rec, m.f) # Null
      [] m.kind = "link"    -> hasRequiredLink(rec, m.urls, m.text)
      [] m.kind = "pos"     -> NumGt(Nullish(Get(rec, m.f), Num(0)), 0)

IndicatorKinds == {"lt", "range", "ge", "eq0", "hastext", "notnull", "link", "pos"}

\* the metric's transformFn applied to a record
metricTransform(m, rec) ==
    IF m.kind \in IndicatorKinds THEN With(rec, "tmp_field", Bool(indicator(m, rec)))
    ELSE IF m.kind = "len"
         THEN With(rec, "tmp_field", LengthOf(Nullish(Get(rec, m.f), Str(<<>>))))
    ELSE rec

\* the metric's filterFn applied to a record (default: () => true)
metricFilter(m, rec) ==
    IF m.kind = "len" THEN hasText(Get(rec, m.f))
    ELSE IF m.kind = "fieldpos" THEN NumGt(Nullish(Get(rec, m.f), Num(0)), 0)
    ELSE TRUE

\* evaluating the metric on the record raises a TypeError
metricThrows(m, rec) ==
    m.kind \in {"hastext", "len"} /\ trimThrows(Get(rec, m.f))

generateReportThrows(wwwHome, otherNCIHome, otherFedHome) ==
    \E i \in 1..Len(Metrics) :
        \E rec \in Range(wwwHome) \cup Range(otherNCIHome) \cup Range(otherFedHome) :
            metricThrows(Metrics[i], rec)

metricCell(m, wwwHome, otherNCIHome, otherFedHome) ==
    LET all == Range(wwwHome) \cup Range(otherNCIHome) \cup Range(otherFedHome)
        filterFn == [r \in all |-> metricFilter(m, r)]
        transformFn == [r \in {x \in all : filterFn[x]} |-> metricTransform(m, r)]
    IN  getMeanFn(metricFieldName(m), transformFn, filterFn,
                  wwwHome, otherNCIHome, otherFedHome)

\* the report object: label -> {www, nci, other}
generateReport(wwwHome, otherNCIHome, otherFedHome) ==
    [label \in Range(Labels) |->
        LET i == CHOOSE k \in 1..Len(Metrics) : Metrics[k].label = label
        IN  metricCell(Metrics[i], wwwHome, otherNCIHome, otherFedHome)]

\* the lines of the comparison table, one per key of the report in
\* insertion order
reportRows(report) ==
    [i \in 1..Len(Labels) |->
        [key |-> Labels[i], www |-> report[Labels[i]].www,
         nci |-> report[Labels[i]].nci, other |-> report[Labels[i]].other]]

----------------------------------------------------------------------------
(* The DAP-parameter grouping of main *)

\* record['dap_parameters'] && record['dap_parameters'][name]
\*     ? record['dap_parameters'][name] : '_NONE_'
dapParam(record, name) ==
    LET dp == Get(record, "dap_parameters")
    IN  IF Truthy(dp) /\ Truthy(PropertyOf(dp, name))
        THEN PropertyOf(dp, name) ELSE Str(s_NONE)

\* `${agency}|${subagency}`
dapKey(record) ==
    TemplateString(dapParam(record, "agency")) \o s_bar
        \o TemplateString(dapParam(record, "subagency"))

\* mutant of dapStep: a key seen again starts over at 1
dapStep_noIncrement(ac, record) ==
    ObjSet(ac, dapKey(record),
           [agency |-> dapParam(record, "agency"),
            subagency |-> dapParam(record, "subagency"),
            count |-> 1])

\* one step of the reduce: count the record under its key
dapStep(ac, record) ==
    IF ObjHas(ac, dapKey(record))
    THEN ObjSet(ac, dapKey(record),
                [ObjGet(ac, dapKey(record)) EXCEPT !.count = @ + 1])
    ELSE ObjSet(ac, dapKey(record),
                [agency |-> dapParam(record, "agency"),
                 subagency |-> dapParam(record, "subagency"),
                 count |-> 1])

dapReduce(records) ==
    LET ac[i \in 0..Len(records)] ==
            IF i = 0 THEN <<>> ELSE dapStep(ac[i - 1], records[i])
    IN  ac[Len(records)]

\* Object.values(otherNCIdapParams), one printed line each
dapLines(ac) == [i \in 1..Len(ac) |-> ac[i].value]

----------------------------------------------------------------------------
(* The third-party-service grouping of main *)

\* .reduce exists only on an array: any other truthy value is a TypeError
domainsThrows(record) ==
    /\ Truthy(Get(record, "third_party_service_domains"))
    /\ Get(record, "third_party_service_domains").t # "arr"

\* mutant of domainCount: the counts of earlier records are not carried over
domainCount_perRecord(domainac, ac, domain) ==
    IF ObjHas(domainac, domain) THEN ObjGet(domainac, domain) + 1 ELSE 1

\* the count the inner reduce stores for one occurrence of a domain
domainCount(domainac, ac, domain) ==
    IF ObjHas(domainac, domain) THEN ObjGet(domainac, domain) + 1
    ELSE IF ObjHas(ac, domain) THEN ObjGet(ac, domain) + 1
    ELSE 1

\* record['third_party_service_domains'].reduce(..., {})
domainsOfRecord(ac, domains) ==
    LET domainac[i \in 0..Len(domains)] ==
            IF i = 0 THEN <<>>
            ELSE ObjSet(domainac[i - 1], TemplateString(domains[i]),
                        domainCount(domainac[i - 1], ac, TemplateString(domains[i])))
    IN  domainac[Len(domains)]

\* one step of the outer reduce
domainsStep(ac, record) ==
    IF ~Truthy(Get(record, "third_party_service_domains")) THEN ac
    ELSE ObjSpread(ac, domainsOfRecord(ac, Get(record, "third_party_service_domains").a))

domainsReduce(records) ==
    LET ac[i \in 0..Len(records)] ==
            IF i = 0 THEN <<>> ELSE domainsStep(ac[i - 1], records[i])
    IN  ac[Len(records)]

\* Object.entries(otherNCIthirdPartyServices), one printed line each
domainLines(ac) == [i \in 1..Len(ac) |-> [domain |-> ac[i].key, count |-> ac[i].value]]

----------------------------------------------------------------------------
(* main, step by step *)

\* mutant of guardFails: only several home records are an error
guardFails_onlyMultiple(records) == Len(records) > 1

\* wwwHomeRecords.length !== 1
guardFails(records) == Len(records) # 1

\* an uncaught TypeError rejects main(): the process ends with status 1
Crash ==
    /\ pc' = "crashed"
    /\ exitCode' = "1"

\* lines 319-333: the two splits; the predicate of the second split throws
\* on a record whose final_url_website is no string, after the first split
\* has returned
Partition ==
    /\ pc = "partition"
    /\ LET first == splitRecordsByFilter(data, [r \in Range(data) |-> isWWW(r)])
           rest  == first.other
       IN  IF \E r \in Range(rest) : matchThrows(r)
           THEN /\ Crash
                /\ wwwRecords' = first.filterMatches
                /\ UNCHANGED <<otherNCIRecords, otherFedRecords>>
           ELSE LET second == splitRecordsByFilter(rest, [r \in Range(rest) |-> isNCI(r)])
                IN  /\ wwwRecords' = first.filterMatches
                    /\ otherNCIRecords' = second.filterMatches
                    /\ otherFedRecords' = second.other
                    /\ pc' = "home"
                    /\ UNCHANGED exitCode
    /\ UNCHANGED <<data, wwwHomeRecords, otherNCIHomeRecords, otherFedHomeRecords,
                   homeReport, tableRows, otherNCIdapParams, dapRows,
                   otherNCIthirdPartyServices, domainRows, linkArgs, linkResult>>

\* lines 336-342: the home-page subset of each cohort
ExtractHome ==
    /\ pc = "home"
    /\ wwwHomeRecords' = extractUniqueHomePageEntries(wwwRecords)
    /\ otherNCIHomeRecords' = extractUniqueHomePageEntries(otherNCIRecords)
    /\ otherFedHomeRecords' = extractUniqueHomePageEntries(otherFedRecords)
    /\ pc' = "guard"
    /\ UNCHANGED <<data, exitCode, wwwRecords, otherNCIRecords, otherFedRecords,
                   homeReport, tableRows, otherNCIdapParams, dapRows,
                   otherNCIthirdPartyServices, domainRows, linkArgs, linkResult>>

\* lines 344-347: the cardinality guard, process.exit(1)
Guard ==
    /\ pc = "guard"
    /\ IF guardFails(wwwHomeRecords)
       THEN pc' = "exited" /\ exitCode' = "1"
       ELSE pc' = "report" /\ UNCHANGED exitCode
    /\ UNCHANGED <<data, wwwRecords, otherNCIRecords, otherFedRecords,
                   wwwHomeRecords, otherNCIHomeRecords, otherFedHomeRecords,
                   homeReport, tableRows, otherNCIdapParams, dapRows,
                   otherNCIthirdPartyServices, domainRows, linkArgs, linkResult>>

\* lines 351-359: generateReport and the comparison table
Report ==
    /\ pc = "report"
    /\ IF generateReportThrows(wwwHomeRecords, otherNCIHomeRecords, otherFedHomeRecords)
       THEN /\ Crash
            /\ UNCHANGED <<homeReport, tableRows>>
       ELSE /\ homeReport' = generateReport(wwwHomeRecords, otherNCIHomeRecords,
                                            otherFedHomeRecords)
            /\ tableRows' = reportRows(homeReport')
            /\ pc' = "dap"
            /\ UNCHANGED exitCode
    /\ UNCHANGED <<data, wwwRecords, otherNCIRecords, otherFedRecords,
                   wwwHomeRecords, otherNCIHomeRecords, otherFedHomeRecords,
                   otherNCIdapParams, dapRows,
                   otherNCIthirdPartyServices, domainRows, linkArgs, linkResult>>

\* lines 364-394: the DAP grouping and its table
DapGrouping ==
    /\ pc = "dap"
    /\ otherNCIdapParams' = dapReduce(otherNCIHomeRecords)
    /\ dapRows' = dapLines(otherNCIdapParams')
    /\ pc' = "domains"
    /\ UNCHANGED <<data, exitCode, wwwRecords, otherNCIRecords, otherFedRecords,
                   wwwHomeRecords, otherNCIHomeRecords, otherFedHomeRecords,
                   homeReport, tableRows,
                   otherNCIthirdPartyServices, domainRows, linkArgs, linkResult>>

\* lines 397-432: the service-domain grouping and its table; main returns
\* and the process ends with status 0
DomainGrouping ==
    /\ pc = "domains"
    /\ IF \E r \in Range(otherNCIHomeRecords) : domainsThrows(r)
       THEN /\ Crash
            /\ UNCHANGED <<otherNCIthirdPartyServices, domainRows>>
       ELSE /\ otherNCIthirdPartyServices' = domainsReduce(otherNCIHomeRecords)
            /\ domainRows' = domainLines(otherNCIthirdPartyServices')
            /\ pc' = "done"
            /\ exitCode' = "0"
    /\ UNCHANGED <<data, wwwRecords, otherNCIRecords, otherFedRecords,
                   wwwHomeRecords, otherNCIHomeRecords, otherFedHomeRecords,
                   homeReport, tableRows, otherNCIdapParams, dapRows,
                   linkArgs, linkResult>>

\* a direct call hasRequiredLink(record, urls, text)
CallHasRequiredLink ==
    /\ pc = "link"
    /\ linkResult' = Bool(hasRequiredLink(linkArgs.record, linkArgs.urls, linkArgs.text))
    /\ pc' = "linked"
    /\ UNCHANGED <<data, exitCode, wwwRecords, otherNCIRecords, otherFedRecords,
                   wwwHomeRecords, otherNCIHomeRecords, otherFedHomeRecords,
                   homeReport, tableRows, otherNCIdapParams, dapRows,
                   otherNCIthirdPartyServices, domainRows, linkArgs>>

----------------------------------------------------------------------------
(* Input records.  Base is a record with every field present and well
   formed; each of the others differs from it in the fields named. *)

Base ==
    [ final_url_website |-> Str(s_www_cancer_gov),
      target_url |-> Str(<<>>),
      target_url_redirects |-> Null,
      cumulative_layout_shift |-> Num(5),
      largest_contentful_paint |-> Num(2000 * Scale),
      third_party_service_count |-> Num(2 * Scale),
      third_party_service_domains |-> Arr(<<Str(s_ga)>>),
      sitemap_xml_detected |-> Bool(TRUE),
      title |-> Str(s_NCI),
      description |-> Str(s_NCI),
      og_title |-> Str(s_NCI),
      og_description |-> Null,
      og_article_published |-> Null,
      og_article_modified |-> Null,
      canonical_link |-> Str(s_http_x),
      robots_txt_detected |-> Bool(TRUE),
      viewport_meta_tag |-> Bool(TRUE),
      required_links_url |-> Arr(<<Str(s_about), Str(s_privacy)>>),
      required_links_text |-> Null,
      site_search |-> Bool(TRUE),
      dap |-> Bool(TRUE),
      dap_parameters |-> Obj([agency |-> Str(s_HHS), subagency |-> Str(s_NIH)]),
      search_dot_gov |-> Bool(FALSE),
      ipv6 |-> Bool(TRUE),
      uswds_count |-> Num(0) ]

\* www.cancer.gov whose target URL redirects
W2 == With(Base, "target_url_redirects", Bool(TRUE))

\* www.cancer.gov, target_url_redirects false, no title
W3 == With(With(Base, "target_url_redirects", Bool(FALSE)), "title", Null)

NCIBase == With(Base, "final_url_website", Str(s_livehelp_cancer_gov))

\* layout shift 0.3, a domain listed twice
N1 ==
    With(With(With(NCIBase, "cumulative_layout_shift", Num(30)),
         "third_party_service_domains", Arr(<<Str(s_ga), Str(s_ga)>>)),
         "required_links_text", Arr(<<Str(s_about_us)>>))

\* layout shift 0.15, two domains, no subagency, no target_url_redirects key
N2 ==
    Without(
      With(With(With(With(NCIBase, "final_url_website", Str(s_ccr_nci_nih_gov)),
           "cumulative_layout_shift", Num(15)),
           "third_party_service_domains", Arr(<<Str(s_ga), Str(s_gtm)>>)),
           "dap_parameters", Obj([agency |-> Str(s_HHS)])),
      "target_url_redirects")

\* no cumulative_layout_shift key, no DAP parameters, target_url_redirects ''
N3 ==
    Without(
      With(With(With(NCIBase, "target_url_redirects", Str(<<>>)),
           "third_party_service_domains", Arr(<<Str(s_gtm)>>)),
           "dap_parameters", Null),
      "cumulative_layout_shift")

\* no title key, target_url_redirects 0, no domains, layout shift 0.25
N4 ==
    Without(
      With(With(With(NCIBase, "target_url_redirects", Num(0)),
           "third_party_service_domains", Null),
           "cumulative_layout_shift", Num(25)),
      "title")

\* domains as one string, a non-numeric layout shift
N5 ==
    With(With(NCIBase, "third_party_service_domains", Str(s_ga)),
         "cumulative_layout_shift", Str(s_NCI))

FedBase == With(Base, "final_url_website", Str(s_www_nih_gov))

\* layout shift null, blank title, no USWDS count
F1 ==
    With(With(With(FedBase, "cumulative_layout_shift", Null),
         "title", Str(s_blank)),
         "uswds_count", Null)

\* no final URL
F2 == With(FedBase, "final_url_website", Null)

\* cancer.gov itself (no leading label), redirected, layout shift 0.1
F3 ==
    With(With(With(FedBase, "final_url_website", Str(s_cancer_gov)),
         "target_url_redirects", Str(s_http_x)),
         "cumulative_layout_shift", Num(10))

Pool == {Base, W2, W3, N1, N2, N3, N4, N5, FedBase, F1, F2, F3}

\* the i-th record of the snapshot carries its own target_url
Url(i) == Str(<<"u">> \o NatToString(i))

NoCall == [record |-> Base, urls |-> <<>>, text |-> <<>>]

Init ==
    /\ \E n \in 0..MaxRecords :
         \E f \in [1..n -> Pool] :
            data = [i \in 1..n |-> With(f[i], "target_url", Url(i))]
    /\ pc = "partition"
    /\ exitCode = "none"
    /\ wwwRecords = <<>> /\ otherNCIRecords = <<>> /\ otherFedRecords = <<>>
    /\ wwwHomeRecords = <<>> /\ otherNCIHomeRecords = <<>> /\ otherFedHomeRecords = <<>>
    /\ homeReport = <<>> /\ tableRows = <<>>
    /\ otherNCIdapParams = <<>> /\ dapRows = <<>>
    /\ otherNCIthirdPartyServices = <<>> /\ domainRows = <<>>
    /\ linkArgs = NoCall /\ linkResult = "none"

Next ==
    \/ Partition
    \/ ExtractHome
    \/ Guard
    \/ Report
    \/ DapGrouping
    \/ DomainGrouping

Spec == Init /\ [][Next]_vars

----------------------------------------------------------------------------
(* Direct calls of hasRequiredLink: the two fields are null, absent or an
   array of at most MaxLinks entries, the search lists hold at most
   MaxSearch strings; '/about-us' strictly contains 'about'. *)

MaxLinks == 2
MaxSearch == 2

s_about_page ==   \* '/about-us'
    <<"/", "a", "b", "o", "u", "t", "-", "u", "s">>

LinkStrings == {s_about, s_about_page}

SeqsUpTo(S, n) == UNION {[1..k -> S] : k \in 0..n}

LinkFieldValues ==
    {Null} \cup {Arr(a) : a \in SeqsUpTo({Str(s) : s \in LinkStrings}, MaxLinks)}

\* records with required_links_url / required_links_text null, absent or an
\* array
LinkRecords ==
    {With(With(Base, "required_links_url", u), "required_links_text", x) :
        u \in LinkFieldValues, x \in LinkFieldValues}
    \cup {Without(With(Base, "required_links_text", x), "required_links_url") :
        x \in LinkFieldValues}

InitLink ==
    /\ linkArgs \in [record : LinkRecords,
                     urls : SeqsUpTo(LinkStrings, MaxSearch),
                     text : SeqsUpTo(LinkStrings, MaxSearch)]
    /\ linkResult = "none"
    /\ pc = "link"
    /\ data = <<>>
    /\ exitCode = "none"
    /\ wwwRecords = <<>> /\ otherNCIRecords = <<>> /\ otherFedRecords = <<>>
    /\ wwwHomeRecords = <<>> /\ otherNCIHomeRecords = <<>> /\ otherFedHomeRecords = <<>>
    /\ homeReport = <<>> /\ tableRows = <<>>
    /\ otherNCIdapParams = <<>> /\ dapRows = <<>>
    /\ otherNCIthirdPartyServices = <<>> /\ domainRows = <<>>

NextLink == CallHasRequiredLink

SpecLink == InitLink /\ [][NextLink]_vars

----------------------------------------------------------------------------
(* Properties *)

RECURSIVE SumSeq(_)
SumSeq(s) == IF s = <<>> THEN 0 ELSE Head(s) + SumSeq(Tail(s))

Occurrences(seq, x) == Cardinality({j \in 1..Len(seq) : seq[j] = x})

Position(seq, x) == CHOOSE k \in 1..Len(seq) : seq[k] = x

\* the positions of main after the home-page subsets are taken
AfterHome == {"guard", "exited", "report", "dap", "domains", "done"}

Running == {"partition", "home", "guard", "report", "dap", "domains"}

\* C1: once main is past the two splits, the sizes of www, otherNCI and
\* otherFederal add up to the size of the input and every input record is in
\* exactly one of the three sequences.
C1_PartitionExhaustive ==
    pc # "partition" =>
        /\ Len(wwwRecords) + Len(otherNCIRecords) + Len(otherFedRecords) = Len(data)
        /\ \A i \in 1..Len(data) :
              Occurrences(wwwRecords, data[i]) + Occurrences(otherNCIRecords, data[i])
                + Occurrences(otherFedRecords, data[i]) = 1

\* the number of input records that are www.cancer.gov home pages
wwwHomeCount(d) ==
    Cardinality({i \in 1..Len(d) :
        /\ Get(d[i], "final_url_website") = Str(s_www_cancer_gov)
        /\ ~Truthy(Get(d[i], "target_url_redirects"))})

\* C2: when the input does not hold exactly one www home-page record, the
\* run never reaches generateReport, prints no row of any of the three
\* tables, keeps running until it ends, and ends with status 1.
C2_GuardStopsRun ==
    wwwHomeCount(data) # 1 =>
        /\ pc \in {"partition", "home", "guard", "exited", "crashed"}
        /\ tableRows = <<>> /\ dapRows = <<>> /\ domainRows = <<>>
        /\ exitCode # "0"
        /\ pc \in {"exited", "crashed"} => exitCode = "1"
        /\ pc \in Running => ENABLED Next

\* C2 witness: two www home-page records, the run has exited with status 1
C2_Witness ==
    /\ pc = "exited" /\ exitCode = "1"
    /\ Len(wwwHomeRecords) = 2
    /\ tableRows = <<>>

\* C3: whenever the cardinality guard has passed, the comparison table holds
\* one row per label of generateReport, in order, each with the three values.
C3_ReportComplete ==
    (Len(wwwHomeRecords) = 1 /\ pc \notin {"guard", "report"}) =>
        /\ Len(tableRows) = Len(Labels)
        /\ \A i \in 1..Len(Labels) :
              /\ tableRows[i].key = Labels[i]
              /\ {"www", "nci", "other"} \subseteq DOMAIN tableRows[i]
        /\ pc \in {"dap", "domains", "done"} \/ dapRows # <<>>

\* the three home-page cohorts by the name of their report column
homeCohort(c) ==
    CASE c = "www"   -> wwwHomeRecords
      [] c = "nci"   -> otherNCIHomeRecords
      [] c = "other" -> otherFedHomeRecords

Columns == {"www", "nci", "other"}

\* the records of a cohort a metric's filter keeps, by position
keptBy(m, records) == {j \in 1..Len(records) : metricFilter(m, records[j])}

\* the number getFieldMean adds up for a record
addend(m, rec) == ToNumber(Get(metricTransform(m, rec), metricFieldName(m)))

\* no field of the record makes the program raise a TypeError
wellFormed(rec) ==
    /\ Get(rec, "final_url_website").t = "str"
    /\ \A f \in {"title", "description", "og_title", "og_description", "canonical_link"} :
          Get(rec, f).t \in {"null", "str"}
    /\ Get(rec, "third_party_service_domains").t \in {"null", "undefined", "arr"}

\* C4: in the report, a cell whose cohort is empty for the metric (empty
\* home-page cohort, or every record filtered out) is NaN; every other cell is
\* the quotient over the records of its own cohort (NaN only when one of
\* their values is NaN); an input that is well formed never makes the run
\* fail, whichever cohorts are empty, and a completed run ends with status 0.
C4_EmptyCohortIsNaN ==
    /\ tableRows # <<>> =>
          \A i \in 1..Len(Metrics) : \A c \in Columns :
              LET m    == Metrics[i]
                  kept == keptBy(m, homeCohort(c))
                  cell == tableRows[i][c]
              IN  /\ kept = {} => cell = NaN
                  /\ kept # {} =>
                        IF \E j \in kept : addend(m, homeCohort(c)[j]) = NaN
                        THEN cell = NaN
                        ELSE cell.t = "quot" /\ cell.den = Cardinality(kept)
    /\ (\A i \in 1..Len(data) : wellFormed(data[i])) =>
          /\ pc # "crashed"
          /\ pc = "done" => exitCode = "0"

\* C4 witness: a finished run whose other-NCI home cohort is empty and whose
\* www record is filtered out of the title-length metric: those cells are NaN
\* while the www layout-shift average is a number
C4_Witness ==
    /\ pc = "done" /\ exitCode = "0"
    /\ otherNCIHomeRecords = <<>>
    /\ tableRows[1].nci = NaN
    /\ tableRows[1].www # NaN
    /\ tableRows[17].www = NaN
    /\ otherFedHomeRecords # <<>>
    /\ tableRows[17].other # NaN

\* the values of target_url_redirects that are falsy
FalsyValues == {Null, Undefined, NaN, Bool(FALSE), Num(0), Str(<<>>)}

\* home is cohort restricted, in order, to the records whose
\* target_url_redirects is one of the values
keepsExactly(home, cohort, values) ==
    /\ \A r \in Range(home) : r \in Range(cohort)
    /\ \A r \in Range(cohort) :
          (r \in Range(home)) <=> (Get(r, "target_url_redirects") \in values)
    /\ \A i, j \in 1..Len(home) :
          i < j => Position(cohort, home[i]) < Position(cohort, home[j])

\* C6 (as stated): a record is kept if and only if target_url_redirects is
\* null or absent.
C6_KeepsOnlyNullRedirects ==
    pc \in AfterHome =>
        /\ keepsExactly(wwwHomeRecords, wwwRecords, {Null, Undefined})
        /\ keepsExactly(otherNCIHomeRecords, otherNCIRecords, {Null, Undefined})
        /\ keepsExactly(otherFedHomeRecords, otherFedRecords, {Null, Undefined})

\* C6 (amended): extractUniqueHomePageEntries returns, in input order, exactly
\* the records whose target_url_redirects is falsy: null, absent, false, 0,
\* the empty string or NaN.
C6_KeepsFalsyRedirects ==
    pc \in AfterHome =>
        /\ keepsExactly(wwwHomeRecords, wwwRecords, FalsyValues)
        /\ keepsExactly(otherNCIHomeRecords, otherNCIRecords, FalsyValues)
        /\ keepsExactly(otherFedHomeRecords, otherFedRecords, FalsyValues)

\* C6 witness: a cohort of which a record with target_url_redirects false is
\* kept, after a record with a truthy value that is dropped
C6_Witness ==
    /\ pc = "guard"
    /\ Len(wwwRecords) = 3 /\ Len(wwwHomeRecords) = 2
    /\ Get(wwwRecords[1], "target_url_redirects") = Null
    /\ Get(wwwRecords[2], "target_url_redirects") = Bool(TRUE)
    /\ Get(wwwRecords[3], "target_url_redirects") = Bool(FALSE)
    /\ wwwHomeRecords = <<wwwRecords[1], wwwRecords[3]>>

\* the entries of a link field: none when it is null, absent or empty
linkEntries(record, field) ==
    IF Get(record, field).t = "arr" THEN Range(Get(record, field).a) ELSE {}

\* C5 (as stated): hasRequiredLink is true if and only if some entry of
\* required_links_url contains one of urls as a substring, or some entry of
\* required_links_text contains one of text as a substring.
C5_MatchesSubstringOfEntry ==
    pc = "linked" =>
        (linkResult = Bool(TRUE) <=>
            \/ \E u \in Range(linkArgs.urls) :
                  \E e \in linkEntries(linkArgs.record, "required_links_url") :
                      StringIncludes(e.s, u)
            \/ \E x \in Range(linkArgs.text) :
                  \E e \in linkEntries(linkArgs.record, "required_links_text") :
                      StringIncludes(e.s, x))

\* C5 (amended): for link fields that are sequences (or null, or absent),
\* hasRequiredLink is true if and only if some entry of required_links_url is
\* equal to one of urls, or some entry of required_links_text is equal to one
\* of text; an entry that strictly contains a search string is no match, and
\* null, absent or empty sequences never match.
C5_MatchesWholeEntry ==
    pc = "linked" =>
        /\ linkResult \in {Bool(TRUE), Bool(FALSE)}
        /\ linkResult = Bool(TRUE) <=>
              \/ \E u \in Range(linkArgs.urls) :
                    \E e \in linkEntries(linkArgs.record, "required_links_url") :
                        e.s = u
              \/ \E x \in Range(linkArgs.text) :
                    \E e \in linkEntries(linkArgs.record, "required_links_text") :
                        e.s = x

\* C5 witness: required_links_url is null, one entry of required_links_text
\* is a search text, another entry only contains it: the call returns true
C5_Witness ==
    /\ pc = "linked"
    /\ linkResult = Bool(TRUE)
    /\ Get(linkArgs.record, "required_links_url") = Null
    /\ linkArgs.urls = <<s_about>>
    /\ linkArgs.text = <<s_about>>
    /\ Get(linkArgs.record, "required_links_text") = Arr(<<Str(s_about_page), Str(s_about)>>)

\* the number of third_party_service_domains entries of the cohort that are
\* the domain
domainOccurrences(records, domain) ==
    SumSeq([i \in 1..Len(records) |->
        IF Get(records[i], "third_party_service_domains").t = "arr"
        THEN Occurrences(Get(records[i], "third_party_service_domains").a, Str(domain))
        ELSE 0])

\* the number of (record, domain) pairs of the cohort
domainPairs(records) ==
    SumSeq([i \in 1..Len(records) |->
        IF Get(records[i], "third_party_service_domains").t = "arr"
        THEN Len(Get(records[i], "third_party_service_domains").a)
        ELSE 0])

\* C7: after the service-domain reduce, the counts of the grouping add up to
\* the number of (record, domain) pairs of the other-NCI home cohort; each
\* domain is listed once, with the number of its occurrences.
C7_DomainCountsAddUp ==
    pc = "done" =>
        /\ SumSeq([i \in 1..Len(domainRows) |-> domainRows[i].count])
              = domainPairs(otherNCIHomeRecords)
        /\ \A i, j \in 1..Len(domainRows) :
              domainRows[i].domain = domainRows[j].domain => i = j
        /\ \A i \in 1..Len(domainRows) :
              domainRows[i].count
                  = domainOccurrences(otherNCIHomeRecords, domainRows[i].domain)

\* C7 witness: a domain listed twice by one record and once by another is
\* counted three times, next to a second domain
C7_Witness ==
    /\ pc = "done"
    /\ Len(otherNCIHomeRecords) = 2
    /\ domainRows = <<[domain |-> s_ga, count |-> 3], [domain |-> s_gtm, count |-> 1]>>

\* agency or subagency of a record as the grouping labels it
dapLabel(record, name) ==
    LET dp == Get(record, "dap_parameters")
    IN  IF dp.t = "obj" /\ name \in DOMAIN dp.o /\ dp.o[name].t = "str" /\ dp.o[name].s # <<>>
        THEN dp.o[name].s ELSE s_NONE

\* C8: after the DAP reduce, the counts of the emitted tuples add up to the
\* size of the other-NCI home cohort; there is one tuple per distinct
\* agency|subagency pair of the cohort ('_NONE_' for an absent part), with
\* the number of records that have it.
C8_DapCountsAddUp ==
    pc \in {"domains", "done"} =>
        /\ SumSeq([i \in 1..Len(dapRows) |-> dapRows[i].count])
              = Len(otherNCIHomeRecords)
        /\ \A i, j \in 1..Len(dapRows) :
              (/\ dapRows[i].agency = dapRows[j].agency
               /\ dapRows[i].subagency = dapRows[j].subagency) => i = j
        /\ \A r \in Range(otherNCIHomeRecords) :
              \E i \in 1..Len(dapRows) :
                  /\ dapRows[i].agency = Str(dapLabel(r, "agency"))
                  /\ dapRows[i].subagency = Str(dapLabel(r, "subagency"))
        /\ \A i \in 1..Len(dapRows) :
              dapRows[i].count =
                  Cardinality({k \in 1..Len(otherNCIHomeRecords) :
                      /\ Str(dapLabel(otherNCIHomeRecords[k], "agency")) = dapRows[i].agency
                      /\ Str(dapLabel(otherNCIHomeRecords[k], "subagency")) = dapRows[i].subagency})

\* C8 witness: two records without DAP parameters are counted under
\* _NONE_|_NONE_
C8_Witness ==
    /\ pc = "done"
    /\ Len(otherNCIHomeRecords) = 2
    /\ dapRows = <<[agency |-> Str(s_NONE), subagency |-> Str(s_NONE), count |-> 2]>>

\* the indicator metrics of the report, by position
IndicatorMetrics == {i \in 1..Len(Metrics) : Metrics[i].kind \in IndicatorKinds}

\* C9: for every indicator metric and every non-empty home cohort, the
\* reported mean is (number of records satisfying the predicate) / (size of
\* the cohort): the sum before division is that number, and the mean lies in
\* [0, 1].
C9_MeanOfIndicator ==
    tableRows # <<>> =>
        \A i \in IndicatorMetrics : \A c \in Columns :
            LET records == homeCohort(c)
                count == Cardinality({j \in 1..Len(records) : indicator(Metrics[i], records[j])})
                cell == tableRows[i][c]
            IN  records # <<>> =>
                    /\ cell = [t |-> "quot", num |-> Scale * count, den |-> Len(records)]
                    /\ 0 <= cell.num /\ cell.num <= Scale * cell.den

\* C9 witness: half of a two-record other-NCI home cohort has a poor layout
\* shift: the mean is 1/2
C9_Witness ==
    /\ pc = "done"
    /\ Len(otherNCIHomeRecords) = 2
    /\ tableRows[4].key = "Performance - Cumulative Layout Shift (% Poor)"
    /\ tableRows[4].nci = [t |-> "quot", num |-> Scale, den |-> 2]

\* C10: each record of a home cohort is in exactly one of the three layout
\* shift buckets, so the three indicator sums of a non-empty cohort add up to
\* its size.
C10_LayoutShiftBucketsPartition ==
    tableRows # <<>> =>
        \A c \in Columns :
            /\ \A r \in Range(homeCohort(c)) :
                  Cardinality({i \in 2..4 : indicator(Metrics[i], r)}) = 1
            /\ homeCohort(c) # <<>> =>
                  tableRows[2][c].num + tableRows[3][c].num + tableRows[4][c].num
                      = Scale * Len(homeCohort(c))

====
